---- MODULE Spec2Model ----
(***************************************************************************)
(* Model of src/src/CompiledRecord.h: the per-type record maps (pack and   *)
(* unpack), their block store, the specialisation for empty records, the   *)
(* registry of created maps and the record table built from it.            *)
(*                                                                         *)
(* Every thread runs calls of the free functions pack<Tuple> and           *)
(* unpack<Tuple>; each call is split into the steps at which other threads *)
(* can observe or disturb it.  getRecordTable is called by the output      *)
(* stage at any time.                                                      *)
(***************************************************************************)
EXTENDS FiniteSets, Integers, Sequences, TLC

\* ------------------------------------------------------------------ bounds

\* number of worker threads calling pack / unpack
NumThreads == 2

\* number of getRecordTable calls in one run
MaxRequests == 2

\* -------------------------------------------------------- program constants

\* slots per block; CompiledRecord.h uses 1 << 20, scaled down here
BLOCK_SIZE == 2

\* bit width of RamDomain (a signed 32 bit integer in the program), scaled down
RamBits == 4

\* bit width of std::size_t (64 in the program), scaled down
SizeBits == 6

\* std::numeric_limits<RamDomain>::max()
RamMax == 2 ^ (RamBits - 1) - 1

\* narrowing of an unsigned size to RamDomain (two's complement)
Narrow(n) ==
    LET m == n % (2 ^ RamBits)
    IN  IF m > RamMax THEN m - 2 ^ RamBits ELSE m

\* ------------------------------------------------------------------ inputs

Threads == 1 .. NumThreads

NoThread == 0

\* the tuple types the program instantiates pack / unpack with
TupleTypes == {"A", "B", "E"}

\* the type handled by the specialisation for empty records
EmptyType == "E"

NonEmptyTypes == TupleTypes \ {EmptyType}

\* the tuples the threads pack, per type
TupleDom(m) ==
    CASE m = "A" -> {<<7, 8>>, <<1, 2>>, <<4, 5>>}
      [] m = "B" -> {<<9, 9>>}
      [] OTHER   -> {<< >>}

\* a value-initialised tuple, as make_unique<block_type>() leaves every slot
DefaultTuple == <<0, 0>>

\* what a read through a dangling pointer may yield besides a tuple
Garbage == <<-1, -1>>

\* ------------------------------------------------------------------- state

VARIABLES
    createdMaps,   \* GeneralRecordMap::getMaps(): the registered maps
    mapState,      \* per type: the static RecordMap<Tuple> of getRecordMap
    r2i,           \* per map: tuple -> index
    i2r,           \* per map: the std::vector of block pointers
    heap,          \* per map: the buffers the vector has allocated
    blocks,        \* per map: the blocks allocated by make_unique
    pack_lock,     \* per map: the thread holding pack_lock, or NoThread
    recordTable,   \* the static RecordTable of getRecordTable
    requests,      \* number of getRecordTable calls so far
    pc,            \* per thread: position in its current call
    ty,            \* per thread: the Tuple type of the call
    tuple,         \* per thread: pack's argument (unpack: the tuple expected)
    index,         \* per thread: pack's local index / unpack's argument
    seen,          \* per thread: the set it read in getMaps().insert(this)
    data,          \* per thread: the vector buffer unpack has read
    ret,           \* per thread: the tuple unpack returns
    fresh,         \* per thread: pack was called when the tuple was not in r2i
    order,         \* per map: the tuples in the order they were inserted
    returned,      \* every (type, tuple, index) a pack call has returned
    aborted        \* the assertion of pack has failed

vars == <<createdMaps, mapState, r2i, i2r, heap, blocks, pack_lock,
          recordTable, requests, pc, ty, tuple, index, seen, data, ret,
          fresh, order, returned, aborted>>

mapVars == <<r2i, i2r, heap, blocks>>

localVars == <<ty, tuple, index, seen, data, ret, fresh>>

\* ----------------------------------------------------------------- helpers

\* getNull<TupleType>()
GetNull == 0

\* isNull<TupleType>(ref)
IsNull(ref) == ref = 0

\* the values of RamDomain
RamDomain == (0 - RamMax - 1) .. RamMax

\* the conversion of a RamDomain value to std::size_t, which the division
\* and the remainder by BLOCK_SIZE (a std::size_t) apply to index
ToSizeT(i) == IF i < 0 THEN i + 2 ^ SizeBits ELSE i

\* the block holding an index, and the slot in it (index / BLOCK_SIZE,
\* index % BLOCK_SIZE)
BlockOf(i) == ToSizeT(i) \div BLOCK_SIZE

SlotOf(i) == ToSizeT(i) % BLOCK_SIZE

\* r2i[tuple] = index
MapPut(f, t, i) == [x \in (DOMAIN f) \cup {t} |-> IF x = t THEN i ELSE f[x]]

\* r2i.size()
MapSize(f) == Cardinality(DOMAIN f)

\* a block as make_unique<block_type>() creates it
NewBlock == [s \in 0 .. BLOCK_SIZE - 1 |-> DefaultTuple]

\* the buffer a vector reallocates into: capacity doubles
GrownCapacity(c) == IF c = 0 THEN 1 ELSE 2 * c

\* i2r.push_back(b): the vector after the call
VecPushBack(v, hp) ==
    IF v.size < v.cap
    THEN [v EXCEPT !.size = v.size + 1]
    ELSE [data |-> Len(hp) + 1, size |-> v.size + 1, cap |-> GrownCapacity(v.cap)]

\* i2r.push_back(b): the buffers after the call; a full vector moves its
\* elements to a new buffer and frees the old one
HeapPushBack(v, hp, b) ==
    IF v.size < v.cap
    THEN [hp EXCEPT ![v.data].elems = Append(@, b)]
    ELSE LET old == IF v.data = 0 THEN << >> ELSE hp[v.data].elems
             fr  == [k \in DOMAIN hp |->
                        IF k = v.data THEN [hp[k] EXCEPT !.freed = TRUE] ELSE hp[k]]
         IN  Append(fr, [elems |-> Append(old, b), freed |-> FALSE])

\* i2r[k] read through the vector's current buffer
VecAt(m, k) == heap[m][i2r[m].data].elems[k + 1]

\* RecordMap::unpack evaluated with no concurrent push_back
Unpack(m, i) == blocks[m][VecAt(m, BlockOf(i))][SlotOf(i)]

\* Tuple::toVector
ToVector(t) == [k \in 1 .. Len(t) |-> t[k]]

\* -------------------------------------------------------------------- Init

Init ==
    /\ createdMaps = {}
    /\ mapState = [m \in TupleTypes |-> "none"]
    /\ r2i = [m \in NonEmptyTypes |-> << >>]
    /\ i2r = [m \in NonEmptyTypes |-> [data |-> 0, size |-> 0, cap |-> 0]]
    /\ heap = [m \in NonEmptyTypes |-> << >>]
    /\ blocks = [m \in NonEmptyTypes |-> << >>]
    /\ pack_lock = [m \in NonEmptyTypes |-> NoThread]
    /\ recordTable = {}
    /\ requests = 0
    /\ pc = [th \in Threads |-> "idle"]
    /\ ty = [th \in Threads |-> "none"]
    /\ tuple = [th \in Threads |-> << >>]
    /\ index = [th \in Threads |-> 0]
    /\ seen = [th \in Threads |-> {}]
    /\ data = [th \in Threads |-> 0]
    /\ ret = [th \in Threads |-> << >>]
    /\ fresh = [th \in Threads |-> FALSE]
    /\ order = [m \in NonEmptyTypes |-> << >>]
    /\ returned = {}
    /\ aborted = FALSE

\* ------------------------------------------------- calls and getRecordMap

\* the first statement of RecordMap<Tuple>::pack for the map of type m
PackEntry(m) == IF m = EmptyType THEN "epack" ELSE "acquire"

\* the first statement of RecordMap<Tuple>::unpack for the map of type m
UnpackEntry(m) == IF m = EmptyType THEN "eunpack" ELSE "u_vec"

\* pack<Tuple>(tuple) is called: detail::getRecordMap<Tuple>() returns the
\* function-local static map, which its first caller constructs; a caller
\* arriving during the construction waits for it
CallPack(th) ==
    /\ pc[th] = "idle"
    /\ ~aborted
    /\ \E m \in TupleTypes : \E t \in TupleDom(m) :
          /\ mapState[m] # "constructing"
          /\ ty' = [ty EXCEPT ![th] = m]
          /\ tuple' = [tuple EXCEPT ![th] = t]
          /\ fresh' = [fresh EXCEPT ![th] = m \in NonEmptyTypes /\ t \notin DOMAIN r2i[m]]
          /\ IF mapState[m] = "done"
             THEN /\ pc' = [pc EXCEPT ![th] = PackEntry(m)]
                  /\ UNCHANGED <<mapState, seen>>
             ELSE /\ mapState' = [mapState EXCEPT ![m] = "constructing"]
                  /\ seen' = [seen EXCEPT ![th] = createdMaps]
                  /\ pc' = [pc EXCEPT ![th] = "ctor"]
    /\ UNCHANGED <<createdMaps, mapVars, pack_lock, recordTable, requests,
                   index, data, ret, order, returned, aborted>>

\* unpack<Tuple>(ref) is called with a reference some pack<Tuple> call has
\* returned, so getRecordMap<Tuple>() finds the map constructed
CallUnpack(th) ==
    /\ pc[th] = "idle"
    /\ ~aborted
    /\ \E r \in returned :
          /\ mapState[r[1]] = "done"
          /\ ty' = [ty EXCEPT ![th] = r[1]]
          /\ tuple' = [tuple EXCEPT ![th] = r[2]]
          /\ index' = [index EXCEPT ![th] = r[3]]
          /\ pc' = [pc EXCEPT ![th] = UnpackEntry(r[1])]
    /\ UNCHANGED <<createdMaps, mapState, mapVars, pack_lock, recordTable,
                   requests, seen, data, ret, fresh, order, returned, aborted>>

\* the outcomes of getMaps().insert(this): the set is not locked, so an insert
\* that overlaps the insert of another type's map may lose that other entry
InsertOutcomes(cur, old, m) == {cur \cup {m}, old \cup {m}}

\* GeneralRecordMap::GeneralRecordMap(), run by the constructing thread,
\* which then enters pack
Construct(th) ==
    /\ pc[th] = "ctor"
    /\ ~aborted
    /\ createdMaps' \in InsertOutcomes(createdMaps, seen[th], ty[th])
    /\ mapState' = [mapState EXCEPT ![ty[th]] = "done"]
    /\ seen' = [seen EXCEPT ![th] = {}]
    /\ pc' = [pc EXCEPT ![th] = PackEntry(ty[th])]
    /\ UNCHANGED <<mapVars, pack_lock, recordTable, requests, ty, tuple,
                   index, data, ret, fresh, order, returned, aborted>>

\* ------------------------------------------------------- RecordMap::pack

\* PackAcquire on one lock shared by the maps of all types
PackAcquireGlobal(th) ==
    /\ pc[th] = "acquire"
    /\ ~aborted
    /\ \A m \in NonEmptyTypes : pack_lock[m] = NoThread
    /\ pack_lock' = [pack_lock EXCEPT ![ty[th]] = th]
    /\ pc' = [pc EXCEPT ![th] = "find"]
    /\ UNCHANGED <<createdMaps, mapState, mapVars, recordTable, requests,
                   localVars, order, returned, aborted>>

\* PackAcquire with the lock left out: the thread enters without waiting
PackAcquireNoLock(th) ==
    /\ pc[th] = "acquire"
    /\ ~aborted
    /\ pack_lock' = [pack_lock EXCEPT ![ty[th]] = th]
    /\ pc' = [pc EXCEPT ![th] = "find"]
    /\ UNCHANGED <<createdMaps, mapState, mapVars, recordTable, requests,
                   localVars, order, returned, aborted>>

\* auto leas = pack_lock.acquire()
PackAcquire(th) ==
    /\ pc[th] = "acquire"
    /\ ~aborted
    /\ pack_lock[ty[th]] = NoThread
    /\ pack_lock' = [pack_lock EXCEPT ![ty[th]] = th]
    /\ pc' = [pc EXCEPT ![th] = "find"]
    /\ UNCHANGED <<createdMaps, mapState, mapVars, recordTable, requests,
                   localVars, order, returned, aborted>>

\* PackFind taking the size of r2i instead of the stored index when found
PackFindRecount(th) ==
    /\ pc[th] = "find"
    /\ ~aborted
    /\ IF tuple[th] \in DOMAIN r2i[ty[th]]
       THEN /\ index' = [index EXCEPT ![th] = MapSize(r2i[ty[th]])]
            /\ pc' = [pc EXCEPT ![th] = "release"]
       ELSE /\ pc' = [pc EXCEPT ![th] = "insert"]
            /\ UNCHANGED index
    /\ UNCHANGED <<createdMaps, mapState, mapVars, pack_lock, recordTable,
                   requests, ty, tuple, seen, data, ret, fresh, order,
                   returned, aborted>>

\* PackFind giving a tuple it has found a new index in the forward index
PackFindReinsert(th) ==
    /\ pc[th] = "find"
    /\ ~aborted
    /\ IF tuple[th] \in DOMAIN r2i[ty[th]]
       THEN /\ index' = [index EXCEPT ![th] = r2i[ty[th]][tuple[th]]]
            /\ r2i' = [r2i EXCEPT ![ty[th]] =
                          MapPut(@, tuple[th], Narrow(MapSize(@) + 1))]
            /\ pc' = [pc EXCEPT ![th] = "release"]
       ELSE /\ pc' = [pc EXCEPT ![th] = "insert"]
            /\ UNCHANGED <<index, r2i>>
    /\ UNCHANGED <<createdMaps, mapState, i2r, heap, blocks, pack_lock,
                   recordTable, requests, ty, tuple, seen, data, ret, fresh,
                   order, returned, aborted>>

\* auto pos = r2i.find(tuple); if (pos != r2i.end()) index = pos->second
PackFind(th) ==
    /\ pc[th] = "find"
    /\ ~aborted
    /\ IF tuple[th] \in DOMAIN r2i[ty[th]]
       THEN /\ index' = [index EXCEPT ![th] = r2i[ty[th]][tuple[th]]]
            /\ pc' = [pc EXCEPT ![th] = "release"]
       ELSE /\ pc' = [pc EXCEPT ![th] = "insert"]
            /\ UNCHANGED index
    /\ UNCHANGED <<createdMaps, mapState, mapVars, pack_lock, recordTable,
                   requests, ty, tuple, seen, data, ret, fresh, order,
                   returned, aborted>>

\* NextIndex confusing the index with the offset in a block
NextIndexWrapped(f) == Narrow((MapSize(f) % BLOCK_SIZE) + 1)

\* NextIndex skipping an index
NextIndexGap(f) == Narrow(MapSize(f) + 2)

\* NextIndex without the offset that skips 0
NextIndexNoOffset(f) == Narrow(MapSize(f))

\* r2i.size() + 1, narrowed to RamDomain by the assignment to index
NextIndex(f) == Narrow(MapSize(f) + 1)

\* PackInsert with the lock's scope ending at the insert into r2i
PackInsertUnlock(th) ==
    /\ pc[th] = "insert"
    /\ ~aborted
    /\ LET m == ty[th]
           i == NextIndex(r2i[m])
       IN  /\ index' = [index EXCEPT ![th] = i]
           /\ r2i' = [r2i EXCEPT ![m] = MapPut(@, tuple[th], i)]
           /\ order' = [order EXCEPT ![m] = Append(@, tuple[th])]
           /\ pack_lock' = [pack_lock EXCEPT ![m] = NoThread]
    /\ pc' = [pc EXCEPT ![th] = "assert"]
    /\ UNCHANGED <<createdMaps, mapState, i2r, heap, blocks,
                   recordTable, requests, ty, tuple, seen, data, ret,
                   fresh, returned, aborted>>

\* index = r2i.size() + 1; r2i[tuple] = index
PackInsert(th) ==
    /\ pc[th] = "insert"
    /\ ~aborted
    /\ LET m == ty[th]
           i == NextIndex(r2i[m])
       IN  /\ index' = [index EXCEPT ![th] = i]
           /\ r2i' = [r2i EXCEPT ![m] = MapPut(@, tuple[th], i)]
           /\ order' = [order EXCEPT ![m] = Append(@, tuple[th])]
    /\ pc' = [pc EXCEPT ![th] = "assert"]
    /\ UNCHANGED <<createdMaps, mapState, i2r, heap, blocks, pack_lock,
                   recordTable, requests, ty, tuple, seen, data, ret,
                   fresh, returned, aborted>>

\* PackAssert as a build that compiles the assertion out runs it
PackAssertSkipped(th) ==
    /\ pc[th] = "assert"
    /\ ~aborted
    /\ pc' = [pc EXCEPT ![th] = "grow"]
    /\ UNCHANGED <<createdMaps, mapState, mapVars, pack_lock, recordTable,
                   requests, localVars, order, returned, aborted>>

\* assert(index != std::numeric_limits<RamDomain>::max())
PackAssert(th) ==
    /\ pc[th] = "assert"
    /\ ~aborted
    /\ IF index[th] # RamMax
       THEN /\ pc' = [pc EXCEPT ![th] = "grow"]
            /\ UNCHANGED aborted
       ELSE /\ pc' = [pc EXCEPT ![th] = "failed"]
            /\ aborted' = TRUE
    /\ UNCHANGED <<createdMaps, mapState, mapVars, pack_lock, recordTable,
                   requests, localVars, order, returned>>

\* PackGrow appending a block in every insert
PackGrowAlways(th) ==
    /\ pc[th] = "grow"
    /\ ~aborted
    /\ LET m == ty[th]
       IN  /\ blocks' = [blocks EXCEPT ![m] = Append(@, NewBlock)]
           /\ i2r' = [i2r EXCEPT ![m] = VecPushBack(@, heap[m])]
           /\ heap' = [heap EXCEPT ![m] =
                          HeapPushBack(i2r[m], @, Len(blocks[m]) + 1)]
    /\ pc' = [pc EXCEPT ![th] = "write"]
    /\ UNCHANGED <<createdMaps, mapState, r2i, pack_lock, recordTable,
                   requests, localVars, order, returned, aborted>>

\* if (index / BLOCK_SIZE == i2r.size()) i2r.push_back(make_unique<block_type>())
PackGrow(th) ==
    /\ pc[th] = "grow"
    /\ ~aborted
    /\ LET m == ty[th]
       IN  IF BlockOf(index[th]) = i2r[m].size
           THEN /\ blocks' = [blocks EXCEPT ![m] = Append(@, NewBlock)]
                /\ i2r' = [i2r EXCEPT ![m] = VecPushBack(@, heap[m])]
                /\ heap' = [heap EXCEPT ![m] =
                               HeapPushBack(i2r[m], @, Len(blocks[m]) + 1)]
           ELSE UNCHANGED <<blocks, i2r, heap>>
    /\ pc' = [pc EXCEPT ![th] = "write"]
    /\ UNCHANGED <<createdMaps, mapState, r2i, pack_lock, recordTable,
                   requests, localVars, order, returned, aborted>>

\* PackWrite storing at offset (index - 1) % BLOCK_SIZE, which unpack does
\* not read
PackWriteShifted(th) ==
    /\ pc[th] = "write"
    /\ ~aborted
    /\ LET m == ty[th]
       IN  IF BlockOf(index[th]) < i2r[m].size
           THEN /\ blocks' = [blocks EXCEPT
                       ![m][VecAt(m, BlockOf(index[th]))][SlotOf(index[th] - 1)] = tuple[th]]
                /\ pc' = [pc EXCEPT ![th] = "release"]
                /\ UNCHANGED aborted
           ELSE /\ aborted' = TRUE
                /\ pc' = [pc EXCEPT ![th] = "failed"]
                /\ UNCHANGED blocks
    /\ UNCHANGED <<createdMaps, mapState, r2i, i2r, heap, pack_lock,
                   recordTable, requests, localVars, order, returned>>

\* PackWrite addressing the slot of index by index - 1, in block and offset
PackWriteOffsetOne(th) ==
    /\ pc[th] = "write"
    /\ ~aborted
    /\ LET m == ty[th]
       IN  IF BlockOf(index[th]) < i2r[m].size
           THEN /\ blocks' = [blocks EXCEPT
                       ![m][VecAt(m, BlockOf(index[th] - 1))][SlotOf(index[th] - 1)] = tuple[th]]
                /\ pc' = [pc EXCEPT ![th] = "release"]
                /\ UNCHANGED aborted
           ELSE /\ aborted' = TRUE
                /\ pc' = [pc EXCEPT ![th] = "failed"]
                /\ UNCHANGED blocks
    /\ UNCHANGED <<createdMaps, mapState, r2i, i2r, heap, pack_lock,
                   recordTable, requests, localVars, order, returned>>

\* PackWrite storing every tuple in the first block
PackWriteFirstBlock(th) ==
    /\ pc[th] = "write"
    /\ ~aborted
    /\ LET m == ty[th]
       IN  IF BlockOf(index[th]) < i2r[m].size
           THEN /\ blocks' = [blocks EXCEPT
                       ![m][VecAt(m, 0)][SlotOf(index[th])] = tuple[th]]
                /\ pc' = [pc EXCEPT ![th] = "release"]
                /\ UNCHANGED aborted
           ELSE /\ aborted' = TRUE
                /\ pc' = [pc EXCEPT ![th] = "failed"]
                /\ UNCHANGED blocks
    /\ UNCHANGED <<createdMaps, mapState, r2i, i2r, heap, pack_lock,
                   recordTable, requests, localVars, order, returned>>

\* auto& list = i2r[index / BLOCK_SIZE]; (*list)[index % BLOCK_SIZE] = tuple;
\* an index past the end of the vector is an access out of bounds, which
\* ends the process
PackWrite(th) ==
    /\ pc[th] = "write"
    /\ ~aborted
    /\ LET m == ty[th]
       IN  IF BlockOf(index[th]) < i2r[m].size
           THEN /\ blocks' = [blocks EXCEPT
                       ![m][VecAt(m, BlockOf(index[th]))][SlotOf(index[th])] = tuple[th]]
                /\ pc' = [pc EXCEPT ![th] = "release"]
                /\ UNCHANGED aborted
           ELSE /\ aborted' = TRUE
                /\ pc' = [pc EXCEPT ![th] = "failed"]
                /\ UNCHANGED blocks
    /\ UNCHANGED <<createdMaps, mapState, r2i, i2r, heap, pack_lock,
                   recordTable, requests, localVars, order, returned>>

\* PackRelease leaving the lock held
PackReleaseKept(th) ==
    /\ pc[th] = "release"
    /\ ~aborted
    /\ pc' = [pc EXCEPT ![th] = "ret"]
    /\ UNCHANGED <<createdMaps, mapState, mapVars, pack_lock, recordTable,
                   requests, localVars, order, returned, aborted>>

\* end of the scope of leas: the lock is released
PackRelease(th) ==
    /\ pc[th] = "release"
    /\ ~aborted
    /\ pack_lock' = [pack_lock EXCEPT ![ty[th]] = NoThread]
    /\ pc' = [pc EXCEPT ![th] = "ret"]
    /\ UNCHANGED <<createdMaps, mapState, mapVars, recordTable, requests,
                   localVars, order, returned, aborted>>

\* return index (of either specialisation); the caller now knows the reference
PackReturn(th) ==
    /\ pc[th] = "ret"
    /\ ~aborted
    /\ returned' = returned \cup {<<ty[th], tuple[th], index[th]>>}
    /\ pc' = [pc EXCEPT ![th] = "idle"]
    /\ ty' = [ty EXCEPT ![th] = "none"]
    /\ tuple' = [tuple EXCEPT ![th] = << >>]
    /\ index' = [index EXCEPT ![th] = 0]
    /\ fresh' = [fresh EXCEPT ![th] = FALSE]
    /\ UNCHANGED <<createdMaps, mapState, mapVars, pack_lock, recordTable,
                   requests, seen, data, ret, order, aborted>>

\* ----------------------------------------------------- RecordMap::unpack

\* i2r[...]: the vector's buffer pointer is read, without the lock
UnpackVec(th) ==
    /\ pc[th] = "u_vec"
    /\ ~aborted
    /\ data' = [data EXCEPT ![th] = i2r[ty[th]].data]
    /\ pc' = [pc EXCEPT ![th] = "u_elem"]
    /\ UNCHANGED <<createdMaps, mapState, mapVars, pack_lock, recordTable,
                   requests, ty, tuple, index, seen, ret, fresh, order,
                   returned, aborted>>

\* what (*(i2r[index / BLOCK_SIZE]))[index % BLOCK_SIZE] yields through the
\* buffer d: a buffer push_back has freed meanwhile is a dangling read
UnpackOutcomes(m, d, i) ==
    IF heap[m][d].freed
    THEN TupleDom(m) \cup {DefaultTuple, Garbage}
    ELSE {blocks[m][heap[m][d].elems[BlockOf(i) + 1]][SlotOf(i)]}

\* the element of the buffer and the slot of its block are read
UnpackElem(th) ==
    /\ pc[th] = "u_elem"
    /\ ~aborted
    /\ \E v \in UnpackOutcomes(ty[th], data[th], index[th]) :
          ret' = [ret EXCEPT ![th] = v]
    /\ pc' = [pc EXCEPT ![th] = "uret"]
    /\ UNCHANGED <<createdMaps, mapState, mapVars, pack_lock, recordTable,
                   requests, ty, tuple, index, seen, data, fresh, order,
                   returned, aborted>>

\* unpack returns (either specialisation)
UnpackReturn(th) ==
    /\ pc[th] = "uret"
    /\ ~aborted
    /\ pc' = [pc EXCEPT ![th] = "idle"]
    /\ ty' = [ty EXCEPT ![th] = "none"]
    /\ tuple' = [tuple EXCEPT ![th] = << >>]
    /\ index' = [index EXCEPT ![th] = 0]
    /\ data' = [data EXCEPT ![th] = 0]
    /\ ret' = [ret EXCEPT ![th] = << >>]
    /\ UNCHANGED <<createdMaps, mapState, mapVars, pack_lock, recordTable,
                   requests, seen, fresh, order, returned, aborted>>

\* ------------------------------------ RecordMap<ram::Tuple<RamDomain, 0>>

\* the specialisation returning the null reference for the empty record
EmptyPackResultNull == GetNull

\* pack of the specialisation for empty records: return 1
EmptyPackResult == 1

EmptyPack(th) ==
    /\ pc[th] = "epack"
    /\ ~aborted
    /\ index' = [index EXCEPT ![th] = EmptyPackResult]
    /\ pc' = [pc EXCEPT ![th] = "ret"]
    /\ UNCHANGED <<createdMaps, mapState, mapVars, pack_lock, recordTable,
                   requests, ty, tuple, seen, data, ret, fresh, order,
                   returned, aborted>>

\* unpack of the specialisation: the static empty tuple, whatever the index
EmptyUnpack(th) ==
    /\ pc[th] = "eunpack"
    /\ ~aborted
    /\ ret' = [ret EXCEPT ![th] = << >>]
    /\ pc' = [pc EXCEPT ![th] = "uret"]
    /\ UNCHANGED <<createdMaps, mapState, mapVars, pack_lock, recordTable,
                   requests, ty, tuple, index, seen, data, fresh, order,
                   returned, aborted>>

\* ------------------------------------------------- getRecordReferences

\* std::map<int, std::vector<RamDomain>> built from the entries of an r2i:
\* recordValues[pair.second] = pair.first.toVector()
RecordValues(f) ==
    [i \in {f[t] : t \in DOMAIN f} |->
        ToVector(CHOOSE t \in DOMAIN f : f[t] = i)]

\* the (reference, tuple) pairs of a std::map
Pairs(rv) == {<<i, rv[i]>> : i \in DOMAIN rv}

\* RecordMap<ram::Tuple<RamDomain, 0>>::getRecordReferences
EmptyRecordReferences == (1 :> << >>)

\* RecordMap::getRecordReferences, read with no pack changing r2i
GetRecordReferences(m) ==
    IF m = EmptyType THEN EmptyRecordReferences ELSE RecordValues(r2i[m])

\* a pack is about to write r2i[tuple] of map m: a getRecordReferences that
\* overlaps the write iterates a map that is being changed
Writing(m) ==
    \E th \in Threads :
       pc[th] = "insert" /\ ty[th] = m

\* the entries a getRecordReferences overlapping that write may report: it
\* holds no lock, so it may see any part of the map with the entry added
TornReferences(m) ==
    LET th == CHOOSE x \in Threads : pc[x] = "insert" /\ ty[x] = m
        f  == MapPut(r2i[m], tuple[th], NextIndex(r2i[m]))
    IN  {RecordValues([t \in d |-> f[t]]) : d \in SUBSET DOMAIN f}

\* what getRecordReferences of map m may return in the current state
ReferencesRead(m) ==
    IF m # EmptyType /\ Writing(m)
    THEN TornReferences(m) \cup {GetRecordReferences(m)}
    ELSE {GetRecordReferences(m)}

\* -------------------------------------------------- getRecordTable

\* RecordTable::addRecord(ref, tuple): the table gains the entry ref -> tuple
AddRecord(table, ref, tup) == table \cup {<<ref, tup>>}

\* the inner loop of getRecordTable: addRecord for every pair
RECURSIVE AddRecords(_, _)
AddRecords(table, pairs) ==
    IF pairs = {} THEN table
    ELSE LET p == CHOOSE x \in pairs : TRUE
         IN  AddRecords(AddRecord(table, p[1], p[2]), pairs \ {p})

\* the outer loop leaving after the first map
AddMapsFirstOnly(table, maps, refs) ==
    IF maps = {} THEN table
    ELSE LET m == CHOOSE x \in maps : TRUE
         IN  AddRecords(table, Pairs(refs[m]))

\* the outer loop of getRecordTable over getMaps(), map m reporting refs[m]
RECURSIVE AddMaps(_, _, _)
AddMaps(table, maps, refs) ==
    IF maps = {} THEN table
    ELSE LET m == CHOOSE x \in maps : TRUE
         IN  AddMaps(AddRecords(table, Pairs(refs[m])), maps \ {m}, refs)

\* bool created = false; a local of getRecordTable, set anew by every call
CreatedAtEntry == FALSE

\* GeneralRecordMap::getRecordTable
GetRecordTable ==
    /\ ~aborted
    /\ requests < MaxRequests
    /\ requests' = requests + 1
    /\ IF ~CreatedAtEntry
       THEN \E refs \in [createdMaps -> UNION {ReferencesRead(m) : m \in createdMaps}] :
               /\ \A m \in createdMaps : refs[m] \in ReferencesRead(m)
               /\ recordTable' = AddMaps(recordTable, createdMaps, refs)
       ELSE UNCHANGED recordTable
    /\ UNCHANGED <<createdMaps, mapState, mapVars, pack_lock, pc, localVars,
                   order, returned, aborted>>

\* -------------------------------------------------------------------- Next

\* one step of a worker thread
Worker(th) ==
    \/ CallPack(th)
    \/ CallUnpack(th)
    \/ Construct(th)
    \/ PackAcquire(th)
    \/ PackFind(th)
    \/ PackInsert(th)
    \/ PackAssert(th)
    \/ PackGrow(th)
    \/ PackWrite(th)
    \/ PackRelease(th)
    \/ PackReturn(th)
    \/ UnpackVec(th)
    \/ UnpackElem(th)
    \/ UnpackReturn(th)
    \/ EmptyPack(th)
    \/ EmptyUnpack(th)

\* the worker threads during rule evaluation
Next == \E th \in Threads : Worker(th)

Spec == Init /\ [][Next]_vars

\* the thread that goes on to the output stage
OutputThread == 1

\* one thread packing and unpacking, and the output stage requesting the
\* record table at any time
NextTable == Worker(OutputThread) \/ GetRecordTable

SpecTable == Init /\ [][NextTable]_vars

\* ------------------------------------------- a map close to its capacity

\* a map as its constructor leaves it
EmptyMap ==
    [r2i |-> << >>, i2r |-> [data |-> 0, size |-> 0, cap |-> 0],
     heap |-> << >>, blocks |-> << >>, order |-> << >>]

\* the map after one whole pack(t) of a tuple it does not hold, run with
\* no other thread in it: the statements of PackInsert, PackAssert's passing
\* branch, PackGrow and PackWrite in sequence
Packed(ms, t) ==
    LET i    == NextIndex(ms.r2i)
        grow == BlockOf(i) = ms.i2r.size
        v    == IF grow THEN VecPushBack(ms.i2r, ms.heap) ELSE ms.i2r
        hp   == IF grow
                THEN HeapPushBack(ms.i2r, ms.heap, Len(ms.blocks) + 1)
                ELSE ms.heap
        bl   == IF grow THEN Append(ms.blocks, NewBlock) ELSE ms.blocks
        b    == hp[v.data].elems[BlockOf(i) + 1]
    IN  [r2i |-> MapPut(ms.r2i, t, i), i2r |-> v, heap |-> hp,
         blocks |-> [bl EXCEPT ![b][SlotOf(i)] = t],
         order |-> Append(ms.order, t)]

\* the map after packing the tuples of ts one after the other
RECURSIVE PackedAll(_, _)
PackedAll(ms, ts) ==
    IF ts = << >> THEN ms ELSE PackedAll(Packed(ms, Head(ts)), Tail(ts))

\* the map of type m as the state holds it
MapNow(m) ==
    [r2i |-> r2i[m], i2r |-> i2r[m], heap |-> heap[m], blocks |-> blocks[m],
     order |-> order[m]]

\* the type whose map is close to its capacity
FullType == "A"

\* the tuples of FullType packed before the run starts: two handles short of
\* std::numeric_limits<RamDomain>::max()
EarlierTuples == [k \in 1 .. RamMax - 2 |-> <<10, k>>]

\* the state after one thread has packed EarlierTuples and returned
InitCap ==
    LET full == PackedAll(EmptyMap, EarlierTuples)
        at(m, f, e) == IF m = FullType THEN f ELSE e
    IN  /\ createdMaps = {FullType}
        /\ mapState = [m \in TupleTypes |-> at(m, "done", "none")]
        /\ r2i = [m \in NonEmptyTypes |-> at(m, full.r2i, EmptyMap.r2i)]
        /\ i2r = [m \in NonEmptyTypes |-> at(m, full.i2r, EmptyMap.i2r)]
        /\ heap = [m \in NonEmptyTypes |-> at(m, full.heap, EmptyMap.heap)]
        /\ blocks = [m \in NonEmptyTypes |-> at(m, full.blocks, EmptyMap.blocks)]
        /\ pack_lock = [m \in NonEmptyTypes |-> NoThread]
        /\ recordTable = {}
        /\ requests = 0
        /\ pc = [th \in Threads |-> "idle"]
        /\ ty = [th \in Threads |-> "none"]
        /\ tuple = [th \in Threads |-> << >>]
        /\ index = [th \in Threads |-> 0]
        /\ seen = [th \in Threads |-> {}]
        /\ data = [th \in Threads |-> 0]
        /\ ret = [th \in Threads |-> << >>]
        /\ fresh = [th \in Threads |-> FALSE]
        /\ order = [m \in NonEmptyTypes |-> at(m, full.order, EmptyMap.order)]
        /\ returned = {<<FullType, EarlierTuples[k], k>> : k \in DOMAIN EarlierTuples}
        /\ aborted = FALSE

\* the workers running on a map that is close to its capacity
SpecCap == InitCap /\ [][Next]_vars

\* whenever no insert is under way in a map, the map is what packing its
\* tuples one after the other in the order of their insertion gives
PackedMatches ==
    \A m \in NonEmptyTypes :
        (\A th \in Threads :
            ty[th] = m => pc[th] \notin {"assert", "grow", "write", "failed"})
            => MapNow(m) = PackedAll(EmptyMap, order[m])

\* ------------------------------------------------------------------ claims

\* a pack is between its insert into r2i and its write of the slot
Inserting(m) ==
    \E th \in Threads :
       ty[th] = m /\ pc[th] \in {"assert", "grow", "write", "failed"}

\* the slots of the block store of m that hold tuple t
SlotsHolding(m, t) ==
    {bs \in (1 .. Len(blocks[m])) \X (0 .. BLOCK_SIZE - 1) :
        blocks[m][bs[1]][bs[2]] = t}

\* how often t was inserted into r2i of m
Insertions(m, t) == Cardinality({k \in 1 .. Len(order[m]) : order[m][k] = t})

\* C1: threads that pack the same tuple of a non-empty type, whatever the
\* interleaving, leave one insertion into the forward index and one block
\* store slot for it, and every call returns the same index.
C1_ConcurrentDedup ==
    \A th \in Threads :
       (pc[th] = "ret" /\ ty[th] \in NonEmptyTypes) =>
          /\ Insertions(ty[th], tuple[th]) = 1
          /\ Cardinality(SlotsHolding(ty[th], tuple[th])) = 1
          /\ \A o \in Threads :
                (pc[o] = "ret" /\ ty[o] = ty[th] /\ tuple[o] = tuple[th])
                   => index[o] = index[th]
          /\ \A r \in returned :
                (r[1] = ty[th] /\ r[2] = tuple[th]) => r[3] = index[th]

\* two threads called pack with the same tuple while it was not in r2i, and
\* both are about to return the same index
C1_Witness ==
    \E a, b \in Threads :
       /\ a # b
       /\ pc[a] = "ret" /\ pc[b] = "ret"
       /\ ty[a] \in NonEmptyTypes /\ ty[a] = ty[b] /\ tuple[a] = tuple[b]
       /\ fresh[a] /\ fresh[b]
       /\ index[a] = index[b]
       /\ Insertions(ty[a], tuple[a]) = 1

\* C2: whenever no pack is in the middle of an insertion, unpack of the
\* index of every packed tuple yields that tuple; with BLOCK_SIZE + 1 tuples
\* packed, unpack(1) and unpack(BLOCK_SIZE + 1) yield the first and the
\* (BLOCK_SIZE + 1)-th tuple packed.
C2_RoundTrip ==
    \A m \in NonEmptyTypes :
       ~Inserting(m) =>
          /\ \A t \in DOMAIN r2i[m] : Unpack(m, r2i[m][t]) = t
          /\ Len(order[m]) >= BLOCK_SIZE + 1 =>
                /\ Unpack(m, 1) = order[m][1]
                /\ Unpack(m, BLOCK_SIZE + 1) = order[m][BLOCK_SIZE + 1]

\* BLOCK_SIZE + 1 tuples are packed, and the first and the last of them are
\* read back from two different blocks
C2_Witness ==
    /\ Len(order["A"]) = BLOCK_SIZE + 1
    /\ ~Inserting("A")
    /\ Unpack("A", 1) = order["A"][1]
    /\ Unpack("A", BLOCK_SIZE + 1) = order["A"][BLOCK_SIZE + 1]
    /\ VecAt("A", BlockOf(1)) # VecAt("A", BlockOf(BLOCK_SIZE + 1))

\* C3: an index a pack call has returned for a tuple stays the index of that
\* tuple: r2i keeps the entry, unpack of the index yields the tuple, and no
\* pack call, past or about to return, pairs the tuple with another index or
\* the index with another tuple.
C3_HandleStable ==
    /\ \A r \in returned :
          r[1] \in NonEmptyTypes =>
             /\ r[2] \in DOMAIN r2i[r[1]]
             /\ r2i[r[1]][r[2]] = r[3]
             /\ Unpack(r[1], r[3]) = r[2]
    /\ \A r1, r2 \in returned :
          r1[1] = r2[1] => (r1[2] = r2[2] <=> r1[3] = r2[3])
    /\ \A th \in Threads :
          pc[th] = "ret" =>
             \A r \in returned :
                r[1] = ty[th] => (r[2] = tuple[th] <=> r[3] = index[th])

\* the first tuple packed was returned index 1, two more tuples were packed
\* since, and a repeated pack of it is about to return 1 again
C3_Witness ==
    \E th \in Threads :
       /\ pc[th] = "ret" /\ ty[th] = "A" /\ ~fresh[th] /\ index[th] = 1
       /\ <<"A", tuple[th], 1>> \in returned
       /\ Len(order["A"]) = 3
       /\ order["A"][1] = tuple[th]

\* C4: in every state r2i of a map gives different tuples different indices.
C4_Injective ==
    \A m \in NonEmptyTypes :
       \A t1, t2 \in DOMAIN r2i[m] :
          t1 # t2 => r2i[m][t1] # r2i[m][t2]

\* three tuples are in r2i of one map while one thread is in its critical
\* section and another waits for the lock
C4_Witness ==
    /\ Cardinality(DOMAIN r2i["A"]) = 3
    /\ Cardinality({r2i["A"][t] : t \in DOMAIN r2i["A"]}) = 3
    /\ \E a, b \in Threads :
          /\ pack_lock["A"] = a
          /\ pc[b] = "acquire" /\ ty[b] = "A"

\* C5: the k-th tuple inserted into a map has index k, and the indices in
\* use are exactly 1 .. n for the n tuples inserted.
C5_Dense ==
    \A m \in NonEmptyTypes :
       /\ DOMAIN r2i[m] = {order[m][k] : k \in 1 .. Len(order[m])}
       /\ \A k \in 1 .. Len(order[m]) : r2i[m][order[m][k]] = k
       /\ {r2i[m][t] : t \in DOMAIN r2i[m]} = 1 .. MapSize(r2i[m])

\* three tuples were inserted by packs of both threads, the third has index 3
C5_Witness ==
    /\ Len(order["A"]) = 3
    /\ r2i["A"][order["A"][3]] = 3
    /\ \E a, b \in Threads :
          a # b /\ ty[a] = "A" /\ ty[b] = "A" /\ fresh[a] /\ fresh[b]

\* C6: getNull is 0, isNull holds of 0 alone, and no index a pack call
\* returns, for an empty or a non-empty type, is null.
C6_NullSentinel ==
    /\ GetNull = 0
    /\ \A r \in RamDomain : IsNull(r) <=> r = 0
    /\ \A r \in returned : ~IsNull(r[3])
    /\ \A th \in Threads : pc[th] = "ret" => ~IsNull(index[th])

\* packs of every type, the empty one included, have returned
C6_Witness ==
    /\ \A m \in TupleTypes : \E r \in returned : r[1] = m /\ ~IsNull(r[3])
    /\ IsNull(GetNull)

\* C7: the record table is built by the first getRecordTable call alone: once
\* a call has been made, no later step changes the contents of the table.
C7_BuiltOnce == [][requests >= 1 => recordTable' = recordTable]_vars

\* no call of pack or unpack is running
Quiescent == \A th \in Threads : pc[th] = "idle"

C9_EmptyType ==
    [][/\ Pairs(GetRecordReferences(EmptyType)) = {<<1, << >>>>}
       /\ \A th \in Threads :
             /\ (pc[th] = "epack" /\ pc'[th] # "epack") =>
                   /\ pc'[th] = "ret" /\ index'[th] = 1
                   /\ UNCHANGED <<createdMaps, mapState, mapVars, pack_lock,
                                  recordTable>>
             /\ (pc[th] = "eunpack" /\ pc'[th] # "eunpack") =>
                   /\ pc'[th] = "uret" /\ ret'[th] = << >>
                   /\ UNCHANGED <<createdMaps, mapState, mapVars, pack_lock,
                                  recordTable>>
             /\ (pc[th] = "ret" /\ ty[th] = EmptyType) => index[th] = 1
             /\ (pc[th] = "uret" /\ ty[th] = EmptyType) => ret[th] = << >>]_vars

\* one thread is about to return 1 from a repeated pack of the empty tuple
\* while another is about to return the empty tuple from unpack(1)
C9_Witness ==
    \E a, b \in Threads :
       /\ pc[a] = "ret" /\ ty[a] = EmptyType /\ index[a] = 1
       /\ pc[b] = "uret" /\ ty[b] = EmptyType /\ ret[b] = << >>
       /\ <<EmptyType, << >>, 1>> \in returned

\* C10: an unpack of an index a pack has returned yields the tuple packed,
\* also when other threads append blocks while it runs.
C10_UnpackSafe ==
    \A th \in Threads :
       (pc[th] = "uret" /\ ty[th] \in NonEmptyTypes) => ret[th] = tuple[th]

\* C11: when pack of a new tuple fails because the handle space is used up,
\* the forward index and the block store are as before the call: the failing
\* tuple is in neither.
C11_NoPartialState ==
    \A th \in Threads :
       (pc[th] = "failed" /\ index[th] = RamMax) =>
          /\ tuple[th] \notin DOMAIN r2i[ty[th]]
          /\ SlotsHolding(ty[th], tuple[th]) = {}

\* C12: using up the handle space is a failure, not a wrap: the index a pack
\* computes is the size of the forward index plus one without any wrap modulo
\* 2^RamBits, a pack whose index reaches the maximum fails and nothing runs
\* after it, and every index stored or returned lies in 1 .. RamMax.
C12_NoWrap ==
    [][/\ \A m \in NonEmptyTypes : \A t \in DOMAIN r2i[m] : r2i[m][t] \in 1 .. RamMax
       /\ \A r \in returned : r[3] \in 1 .. RamMax
       /\ \A th \in Threads :
             /\ pc[th] = "ret" => index[th] \in 1 .. RamMax
             /\ (pc[th] = "insert" /\ pc'[th] # "insert") =>
                   index'[th] = MapSize(r2i[ty[th]]) + 1
             /\ (pc[th] = "assert" /\ pc'[th] # "assert" /\ index[th] = RamMax) =>
                   pc'[th] = "failed" /\ aborted'
       /\ aborted => UNCHANGED vars]_vars

\* a pack has failed on the index RamMax after another returned RamMax - 1
C12_Witness ==
    /\ aborted
    /\ \E th \in Threads :
          /\ pc[th] = "failed" /\ index[th] = RamMax
          /\ MapSize(r2i[ty[th]]) = RamMax
          /\ \E r \in returned : r[1] = ty[th] /\ r[3] = RamMax - 1

\* C13: in every state the registry holds exactly the maps constructed so
\* far, also when threads construct the maps of different types at the same
\* time.
C13_RegistryComplete ==
    createdMaps = {m \in TupleTypes : mapState[m] = "done"}

\* the tuples of the forward index of m whose slot has been written
Written(m) ==
    {t \in DOMAIN r2i[m] :
        \A th \in Threads :
           (ty[th] = m /\ tuple[th] = t) =>
              pc[th] \notin {"assert", "grow", "write", "failed"}}

\* C14 as stated: the tuple with index h is stored in block
\* (h - 1) div BLOCK_SIZE at offset (h - 1) mod BLOCK_SIZE.
C14_AddressingShifted ==
    \A m \in NonEmptyTypes : \A t \in Written(m) :
       LET h == r2i[m][t]
       IN  blocks[m][VecAt(m, (h - 1) \div BLOCK_SIZE)][(h - 1) % BLOCK_SIZE] = t

\* C14, amended: the tuple with index h is stored in block h div BLOCK_SIZE at
\* offset h mod BLOCK_SIZE, so that block b holds the indices b * BLOCK_SIZE
\* .. (b + 1) * BLOCK_SIZE - 1 (offset 0 of block 0 stays unused), and unpack
\* reads the block and the offset pack wrote.
C14_Addressing ==
    \A m \in NonEmptyTypes :
       /\ \A t \in Written(m) :
             LET h == r2i[m][t]
             IN  /\ blocks[m][VecAt(m, h \div BLOCK_SIZE)][h % BLOCK_SIZE] = t
                 /\ Unpack(m, h) = t
       /\ \A b \in 0 .. i2r[m].size - 1 : \A s \in 0 .. BLOCK_SIZE - 1 :
             LET t == blocks[m][VecAt(m, b)][s]
             IN  t # DefaultTuple =>
                    /\ t \in DOMAIN r2i[m]
                    /\ r2i[m][t] = b * BLOCK_SIZE + s
       /\ \A th \in Threads :
             (pc[th] = "u_elem" /\ ty[th] = m /\ ~heap[m][data[th]].freed) =>
                UnpackOutcomes(m, data[th], index[th]) =
                   {blocks[m][heap[m][data[th]].elems[(index[th] \div BLOCK_SIZE) + 1]]
                             [index[th] % BLOCK_SIZE]}

\* a map holds three tuples in two blocks: index 1 at offset 1 of block 0,
\* whose offset 0 is unused, indices 2 and 3 in block 1, and an unpack is
\* about to read the slot of index 2
C14_Witness ==
    \E m \in NonEmptyTypes :
       /\ Cardinality(Written(m)) = 3
       /\ i2r[m].size = 2
       /\ blocks[m][VecAt(m, 0)][0] = DefaultTuple
       /\ blocks[m][VecAt(m, 0)][1] # DefaultTuple
       /\ blocks[m][VecAt(m, 1)][0] # DefaultTuple
       /\ blocks[m][VecAt(m, 1)][1] # DefaultTuple
       /\ \E th \in Threads : pc[th] = "u_elem" /\ ty[th] = m /\ index[th] = 2

\* C15: an insert appends one block when and only when the block index of
\* its new index (index / BLOCK_SIZE) equals the number of blocks, and does so
\* before it writes the slot; the block index of every index whose insert has
\* passed that step is below the number of blocks, no step appends more than
\* one block, only that step of an insert appends, there are no more blocks
\* than the indices need, and the number of blocks never decreases.
C15_GrowOnDemand ==
    [][/\ \A th \in Threads :
             (pc[th] = "grow" /\ pc'[th] # "grow") =>
                LET m == ty[th]
                IN  /\ pc'[th] = "write"
                    /\ SlotsHolding(m, tuple[th]) = {}
                    /\ IF index[th] \div BLOCK_SIZE = i2r[m].size
                       THEN /\ i2r'[m].size = i2r[m].size + 1
                            /\ blocks'[m] = Append(blocks[m], NewBlock)
                       ELSE /\ i2r'[m] = i2r[m]
                            /\ blocks'[m] = blocks[m]
       /\ \A m \in NonEmptyTypes :
             /\ i2r'[m].size >= i2r[m].size
             /\ i2r'[m].size <= i2r[m].size + 1
             /\ i2r[m].size = Len(blocks[m])
             /\ i2r'[m].size # i2r[m].size =>
                   \E th \in Threads :
                      ty[th] = m /\ pc[th] = "grow" /\ pc'[th] = "write"
             /\ \A t \in DOMAIN r2i[m] :
                   (\A th \in Threads :
                       (ty[th] = m /\ tuple[th] = t) =>
                          pc[th] \notin {"assert", "grow", "failed"})
                      => r2i[m][t] \div BLOCK_SIZE < i2r[m].size
             /\ i2r[m].size <= (MapSize(r2i[m]) \div BLOCK_SIZE) + 1]_vars

\* an insert of the index BLOCK_SIZE has appended the second block and is
\* about to write its slot; the insert before it appended none
C15_Witness ==
    \E th \in Threads :
       /\ pc[th] = "write" /\ ty[th] \in NonEmptyTypes
       /\ index[th] = BLOCK_SIZE
       /\ i2r[ty[th]].size = 2
       /\ SlotsHolding(ty[th], tuple[th]) = {}

\* C16: a slot a pack has written is never written again, the block at a
\* position of i2r stays at that position, and new blocks are only appended
\* at the end.
C16_WriteOnce ==
    [][\A m \in NonEmptyTypes :
          /\ i2r'[m].size >= i2r[m].size
          /\ \A k \in 0 .. i2r[m].size - 1 :
                /\ heap'[m][i2r'[m].data].elems[k + 1] = VecAt(m, k)
                /\ \A s \in 0 .. BLOCK_SIZE - 1 :
                      blocks[m][VecAt(m, k)][s] # DefaultTuple =>
                         blocks'[m][VecAt(m, k)][s] = blocks[m][VecAt(m, k)][s]
          /\ \A th \in Threads :
                (pc[th] = "write" /\ ty[th] = m /\ pc'[th] = "release") =>
                   /\ Unpack(m, index[th]) = DefaultTuple
                   /\ blocks'[m][VecAt(m, BlockOf(index[th]))][SlotOf(index[th])]
                         = tuple[th]]_vars

\* a pack is about to write the slot of index 3 while the slots of indices 1
\* and 2, in another block and in its own, hold their tuples
C16_Witness ==
    \E th \in Threads :
       /\ pc[th] = "write" /\ ty[th] \in NonEmptyTypes /\ index[th] = 3
       /\ Unpack(ty[th], 1) # DefaultTuple
       /\ Unpack(ty[th], 2) # DefaultTuple
       /\ Unpack(ty[th], 3) = DefaultTuple

\* thread th runs a pack of a tuple that was in the forward index when the
\* call began
PacksKnown(th) ==
    /\ ty[th] \in NonEmptyTypes
    /\ ~fresh[th]
    /\ pc[th] \in {"acquire", "find", "insert", "assert", "grow", "write",
                   "failed", "release", "ret"}

\* C17: a pack of a tuple that is already in the forward index returns the
\* index stored for it, and no step of the call changes the forward index,
\* the block store or the registry.
C17_FoundReadOnly ==
    [][\A th \in Threads :
          /\ PacksKnown(th) =>
                /\ pc[th] \in {"acquire", "find", "release", "ret"}
                /\ tuple[th] \in DOMAIN r2i[ty[th]]
                /\ pc[th] \in {"release", "ret"} =>
                      index[th] = r2i[ty[th]][tuple[th]]
          /\ ((PacksKnown(th) \/ PacksKnown(th)') /\ pc'[th] # pc[th]) =>
                UNCHANGED <<mapVars, createdMaps, mapState, order>>]_vars

\* a pack of a tuple interned before the call is about to return its index
\* while the map holds a second tuple
C17_Witness ==
    \E th \in Threads :
       /\ PacksKnown(th) /\ pc[th] = "ret"
       /\ index[th] = r2i[ty[th]][tuple[th]]
       /\ MapSize(r2i[ty[th]]) >= 2
       /\ <<ty[th], tuple[th], index[th]>> \in returned

\* C18: no step of an operation on the map of one type changes the forward
\* index, the block store, the numbering or the lock of the map of another
\* type; a pack waits for the lock of its own map only; and the first tuple
\* inserted into the map of each non-empty type gets the index 1.
C18_TypeIsolation ==
    [][/\ \A th \in Threads : \A m \in NonEmptyTypes :
             (pc'[th] # pc[th] /\ ty[th] # m /\ ty'[th] # m) =>
                UNCHANGED <<r2i[m], i2r[m], heap[m], blocks[m], order[m],
                            pack_lock[m]>>
       /\ \A th \in Threads :
             (pc[th] = "acquire" /\ ~aborted /\ pack_lock[ty[th]] = NoThread)
                => ENABLED PackAcquire(th)
       /\ \A m \in NonEmptyTypes :
             order[m] # << >> => r2i[m][order[m][1]] = 1]_vars

\* two threads are inside the critical sections of the maps of two types at
\* the same time, each inserting the first tuple of its map with the index 1
C18_Witness ==
    \E a, b \in Threads :
       /\ ty[a] \in NonEmptyTypes /\ ty[b] \in NonEmptyTypes /\ ty[a] # ty[b]
       /\ pc[a] = "write" /\ pc[b] = "write"
       /\ pack_lock[ty[a]] = a /\ pack_lock[ty[b]] = b
       /\ index[a] = 1 /\ index[b] = 1

\* what the slot of index h of the map of type m holds, if it is allocated
Stored(m, h) ==
    IF h >= 0 /\ BlockOf(h) < i2r[m].size THEN Unpack(m, h) ELSE Garbage

\* C20: no pack returns an index before the slot of that index holds the
\* tuple, and whenever no thread is inside the critical section of a map,
\* the slot of every entry of its forward index holds the entry's tuple.
C20_NoEarlyEscape ==
    \A m \in NonEmptyTypes :
       /\ pack_lock[m] = NoThread =>
             \A t \in DOMAIN r2i[m] : Stored(m, r2i[m][t]) = t
       /\ \A th \in Threads :
             (ty[th] = m /\ pc[th] = "ret") => Stored(m, index[th]) = tuple[th]
       /\ \A r \in returned : r[1] = m => Stored(m, r[3]) = r[2]

\* two packs of one tuple that both began before it was interned are about
\* to return: one inserted it, the other waited for the lock and found it
C20_Witness ==
    \E a, b \in Threads :
       /\ a # b
       /\ ty[a] \in NonEmptyTypes /\ ty[b] = ty[a] /\ tuple[b] = tuple[a]
       /\ fresh[a] /\ fresh[b]
       /\ pc[a] = "ret" /\ pc[b] = "ret"
       /\ index[a] = index[b]
       /\ pack_lock[ty[a]] = NoThread
       /\ Stored(ty[a], index[a]) = tuple[a]

\* ------------------------------------------------------------- scheduling

\* a step of a call that thread th has begun
RunStep(th) ==
    \/ Construct(th)
    \/ PackAcquire(th)
    \/ PackFind(th)
    \/ PackInsert(th)
    \/ PackAssert(th)
    \/ PackGrow(th)
    \/ PackWrite(th)
    \/ PackRelease(th)
    \/ PackReturn(th)
    \/ UnpackVec(th)
    \/ UnpackElem(th)
    \/ UnpackReturn(th)
    \/ EmptyPack(th)
    \/ EmptyUnpack(th)

\* the scheduler is weakly fair: a thread that can go on with its call at
\* every moment does so at some moment
SpecLive == InitCap /\ [][Next]_vars /\ \A th \in Threads : WF_vars(RunStep(th))

\* the lock is granted fairly: a thread that finds the lock free again and
\* again gets it
FairLock == \A th \in Threads : SF_vars(PackAcquire(th))

\* thread th is inside the critical section of pack
InCritical(th) ==
    pc[th] \in {"find", "insert", "assert", "grow", "write", "release", "failed"}

\* thread th runs a pack call
InPack(th) ==
    InCritical(th) \/ pc[th] \in {"ctor", "acquire", "ret", "epack"}

\* at most one thread is inside the critical section of a map, and it is the
\* one holding the map's lock
OneInside ==
    \A m \in NonEmptyTypes :
       /\ Cardinality({th \in Threads : ty[th] = m /\ InCritical(th)}) <= 1
       /\ \A th \in Threads :
             /\ (ty[th] = m /\ InCritical(th)) => pack_lock[m] = th
             /\ pack_lock[m] = th => (ty[th] = m /\ InCritical(th))

\* C19 as stated: under weak fairness of the scheduler every pack that is
\* invoked acquires the lock, leaves the critical section with the lock
\* released and returns, unless the handle space is used up, and at most one
\* thread is inside the critical section of a map.
C19_CompletesWeak ==
    /\ []OneInside
    /\ \A th \in Threads : InPack(th) ~> (pc[th] = "idle" \/ aborted)

\* C19, amended: under weak fairness of the scheduler a pack that has
\* acquired the lock leaves the critical section with the lock released and
\* returns, and a held lock is released, unless the handle space is used up;
\* at most one thread is inside the critical section of a map; and if the
\* lock is granted fairly, every pack that is invoked acquires it and returns.
C19_PackCompletes ==
    /\ []OneInside
    /\ \A th \in Threads :
          (InCritical(th) \/ pc[th] \in {"ret", "epack", "ctor"})
             ~> (pc[th] \in {"idle", "acquire"} \/ aborted)
    /\ \A m \in NonEmptyTypes :
          (pack_lock[m] # NoThread) ~> (pack_lock[m] = NoThread \/ aborted)
    /\ FairLock =>
          \A th \in Threads : InPack(th) ~> (pc[th] = "idle" \/ aborted)

\* one pack waits for the lock of a map while another is inside the map's
\* critical section on the found path and a third call has returned
C19_Witness ==
    \E a, b \in Threads :
       /\ pc[a] = "acquire" /\ pc[b] = "release"
       /\ ty[a] = ty[b] /\ pack_lock[ty[b]] = b
       /\ ~fresh[b]
       /\ returned # {}

====
